---- MODULE Spec2Model ----
(***************************************************************************)
(* Model of app.py (AstraSys Fast Mode Lite): the evidence locator, the    *)
(* document classifier, term inference, the seven-item scorecard and the   *)
(* "Run outcome-based scorecard" handler.                                  *)
(*                                                                         *)
(* Text.  A page text is a sequence of tokens.  A token is a phrase of a   *)
(* fixed lexicon, a run of whitespace, a stray quote character or a        *)
(* numeric literal carrying the number that float() reads from it:         *)
(* amounts in cents, rates in thousandths of a percent.  The empty         *)
(* sequence is the empty string.  A regular expression is the set of       *)
(* lexicon phrases inside which it finds a match, plus whether it matches  *)
(* the empty string.  Lengths are counted in tokens.                       *)
(***************************************************************************)
EXTENDS Integers, Sequences, FiniteSets, TLC

VARIABLES
    pc,          \* position of the run
    uploads,     \* the uploaded files: <<[name, pages]>>, pages as the extractor reads them
    forb_start,  \* st.date_input, as a day ordinal
    forb_end,
    fp,          \* outcome of the float comparison x > y + 0.01 when x is y plus one cent
    docs_text,   \* handler's list of (doc_name, doc_type, pages)
    items,       \* score items of the run
    policy_note, \* second component of build_scorecard's result
    summary,     \* branch taken by the executive summary
    args,        \* arguments of a function of the program called on its own
    ret          \* result of a function called on its own (find_hits: with the last page examined)

vars == <<pc, uploads, forb_start, forb_end, fp, docs_text, items, policy_note,
          summary, args, ret>>

---------------------------------------------------------------------------
(* Values *)

None == -1                      \* Optional[float] without a value
NoneText == <<[w |-> "None", n |-> -1]>>   \* a page whose text is None

CARES_EFFECTIVE == 737511       \* dt.date(2020, 3, 27).toordinal()

Word(w) == [w |-> w, n |-> 0]
Amt(c) == [w |-> "$", n |-> c]      \* "$1,200.00": c cents
Pct(m) == [w |-> "%", n |-> m]      \* "3.25%" followed by a non-word character
PctGlued(m) == [w |-> "%x", n |-> m]  \* "3.25%" directly followed by a word character
WS == Word(" ")                     \* a run of blanks inside a line
NL == Word("\n")                    \* a line break
QuoteChar == Word("'")              \* a stray quote character
Ellipsis == Word("...")

IsPct(t) == t.w \in {"%", "%x"}
IsNum(t) == t.w \in {"$", "%", "%x"}

Min(a, b) == IF a < b THEN a ELSE b
Take(s, k) == SubSeq(s, 1, Min(k, Len(s)))      \* s[:k]
Truthy(s) == s # <<>> /\ s # NoneText            \* Python truth of a str-or-None

RECURSIVE Flatten(_)
Flatten(ss) == IF ss = <<>> THEN <<>> ELSE Head(ss) \o Flatten(Tail(ss))

---------------------------------------------------------------------------
(* Helpers *)

IsBlank(t) == t = WS \/ t = NL
NotBlank(t) == ~IsBlank(t)

normalize_space(s) == IF s = NoneText THEN <<>> ELSE SelectSeq(s, NotBlank)

short_quote(s, limit) ==
    LET t == normalize_space(s)
    IN  IF Len(t) > limit THEN Append(SubSeq(t, 1, limit), Ellipsis) ELSE t

StopWords == {"the", "and", "or", "to", "of", "a", "in", "for", "with", "your", "you",
              "is", "are", "on", "this", "that", "as", "be", "by", "it"}

NotQuoteChar(t) == t # QuoteChar
NotStopWord(t) == t.w \notin StopWords

locator_phrase(excerpt, max_words) ==
    LET words == SelectSeq(normalize_space(excerpt), NotQuoteChar)
        filtered == SelectSeq(words, NotStopWord)
        pick == IF Len(filtered) >= max_words THEN filtered ELSE words
    IN  Take(pick, max_words)

EvKey(e) == <<e.doc_name, e.page_number, e.search_phrase>>

RECURSIVE dedupe_loop(_, _, _)
dedupe_loop(ev_list, seen, out) ==
    IF ev_list = <<>> THEN out
    ELSE LET e == Head(ev_list)
         IN  IF EvKey(e) \notin seen
             THEN dedupe_loop(Tail(ev_list), seen \cup {EvKey(e)}, Append(out, e))
             ELSE dedupe_loop(Tail(ev_list), seen, out)

dedupe_evidence(ev_list) == dedupe_loop(ev_list, {}, <<>>)

policy_blurb(fs, fe) ==
    IF fe >= CARES_EFFECTIVE THEN "COVID-era relief" ELSE "before the CARES Act effective date"

---------------------------------------------------------------------------
(* Regular expressions over the lexicon *)

Re(phrases) == [lang |-> phrases, nullable |-> FALSE]
re_search(r, t) == r.nullable \/ \E i \in DOMAIN t : t[i].w \in r.lang

FORB_PATTERNS == <<Re({"forbearance"}), Re({"covid"}), Re({"cares act"}), Re({"payment pause"})>>
DELIN_PATTERNS == <<Re({"late fee"}), Re({"late charge"}), Re({"past due", "past due amount"}),
                    Re({"delinquent"})>>
SUSPENSE_PATTERNS == <<Re({"suspense"})>>
VA_PATTERNS == <<Re({"VALERI"}), Re({"Loan Guaranty"}), Re({"Veterans Affairs"}), Re({"VA"})>>
BASELINE_PATTERNS == <<Re({"principal and interest"}), Re({"P&I"}),
                       Re({"escrow", "escrow analysis"}), Re({"total monthly payment"}),
                       Re({"interest rate"}), Re({"note rate"})>>
TERM_PATTERNS == <<Re({"interest rate"}), Re({"principal and interest"}),
                   Re({"escrow", "escrow analysis"}), Re({"total monthly payment"}),
                   Re({"monthly payment", "total monthly payment"}), Re({"maturity"}),
                   Re({"term", "change in terms"})>>
CAP_PATTERNS == <<Re({"arrears"}), Re({"capitalized"}), Re({"principal balance"}),
                  Re({"deferred"}), Re({"past due amount"})>>

RATE_LABELS == {"interest rate", "note rate"}
\* a label pattern of find_labeled_amount: its phrases, and whether it is a capturing group
Label(phrases, grouped) == [lang |-> phrases, grouped |-> grouped]
PI_LABELS == <<Label({"principal and interest", "P&I", "P/I"}, TRUE)>>
ESCROW_LABELS == <<Label({"escrow", "escrow analysis"}, TRUE)>>
TOTAL_LABELS == <<Label({"total monthly payment", "monthly payment", "total payment",
                         "amount due"}, TRUE)>>

---------------------------------------------------------------------------
(* Evidence extraction *)

\* find_hits without the break at max_hits
RECURSIVE find_hits_scan_no_break(_, _, _, _, _)
find_hits_scan_no_break(pages, regs, max_hits, i, hits) ==
    IF i > Len(pages) THEN [hits |-> hits, last |-> Len(pages)]
    ELSE LET t == pages[i]
         IN  IF Truthy(t) /\ \E k \in DOMAIN regs : re_search(regs[k], t)
             THEN find_hits_scan_no_break(pages, regs, max_hits, i + 1,
                      Append(hits, [page |-> i, snippet |-> short_quote(t, 240)]))
             ELSE find_hits_scan_no_break(pages, regs, max_hits, i + 1, hits)

RECURSIVE find_hits_scan(_, _, _, _, _)
find_hits_scan(pages, regs, max_hits, i, hits) ==
    IF i > Len(pages) THEN [hits |-> hits, last |-> Len(pages)]
    ELSE LET t == pages[i]
         IN  IF ~Truthy(t) THEN find_hits_scan(pages, regs, max_hits, i + 1, hits)
             ELSE IF \E k \in DOMAIN regs : re_search(regs[k], t)
             THEN LET h == Append(hits, [page |-> i, snippet |-> short_quote(t, 240)])
                  IN  IF Len(h) >= max_hits THEN [hits |-> h, last |-> i]
                      ELSE find_hits_scan(pages, regs, max_hits, i + 1, h)
             ELSE find_hits_scan(pages, regs, max_hits, i + 1, hits)

find_hits(pages, patterns, max_hits) == find_hits_scan(pages, patterns, max_hits, 1, <<>>).hits

evidence_from_hits(doc_name, hits) ==
    [k \in 1..Len(hits) |->
        [doc_name |-> doc_name,
         page_number |-> hits[k].page,
         quote |-> short_quote(hits[k].snippet, 180),
         search_phrase |-> locator_phrase(hits[k].snippet, 7)]]

---------------------------------------------------------------------------
(* Document classification *)

\* the blob without the [:10] slice
BlobOf_all_pages(pages) == UNION {{pages[i][j].w : j \in DOMAIN pages[i]} : i \in DOMAIN pages}

\* the phrases of "\n".join(pages[:10]).lower()
BlobOf(pages) == UNION {{pages[i][j].w : j \in DOMAIN pages[i]} : i \in 1..Min(10, Len(pages))}

MOD_KEYWORDS == {"loan modification", "modification agreement", "change in terms",
                 "effective date of this modification"}
HISTORY_KEYWORDS == {"payment history", "transaction history", "payment ledger"}
BILLING_KEYWORDS == {"amount due", "billing statement", "late charge", "past due",
                     "past due amount", "internet reprint"}

classify_doc(pages) ==
    LET blob == BlobOf(pages)
    IN  IF blob \cap MOD_KEYWORDS # {} THEN "MODIFICATION"
        ELSE IF blob \cap HISTORY_KEYWORDS # {} THEN "PAYMENT_HISTORY"
        ELSE IF blob \cap {"escrow", "escrow analysis"} # {}
                /\ blob \cap {"analysis", "escrow analysis"} # {} THEN "ESCROW"
        ELSE IF blob \cap BILLING_KEYWORDS # {} THEN "BILLING"
        ELSE "OTHER"

---------------------------------------------------------------------------
(* Baseline and modification term extraction *)

RECURSIVE JoinLines(_)
JoinLines(pages) ==
    IF pages = <<>> THEN <<>>
    ELSE IF Len(pages) = 1 THEN pages[1]
    ELSE pages[1] \o <<NL>> \o JoinLines(Tail(pages))

MinOf(S) == CHOOSE x \in S : \A y \in S : x <= y

\* the literal that (label).{0,N}?(number) captures for the label at position i, or 0
RateAfter(txt, i) ==
    LET js == {j \in (i + 1)..Len(txt) :
                  IsPct(txt[j]) /\ \A k \in (i + 1)..(j - 1) : txt[k] # NL}
    IN  IF js = {} THEN 0 ELSE MinOf(js)

parse_rate(text) ==
    LET js == {j \in DOMAIN text : text[j].w = "%x"}
    IN  IF js = {} THEN None ELSE text[MinOf(js)].n

AmountAfter(txt, i) ==
    LET js == {j \in (i + 1)..Len(txt) : IsNum(txt[j])}
        j == MinOf(js)
        between == (i + 1)..(j - 1)
        sameLine == \A k \in between : txt[k] # NL
        \* \s* crosses line breaks, but only towards a literal without a dollar sign
        acrossBreak == /\ txt[j].w # "$"
                       /\ \A k \in between : \A l \in between :
                              (k < l /\ txt[k] = NL) => IsBlank(txt[l])
    IN  IF js = {} THEN 0 ELSE IF sameLine \/ acrossBreak THEN j ELSE 0

AmountValue(t) == IF t.w = "$" THEN t.n ELSE t.n \div 10

\* float(m.group(1).replace(",", "")) for the match at label position i: the number it
\* reads, or None where float() raises.  Group 1 of a pattern written with its own
\* parentheses is the label, not the amount.
FloatOfGroup1(text, lp, i) ==
    IF lp.grouped THEN None ELSE AmountValue(text[AmountAfter(text, i)])

RECURSIVE find_labeled_amount(_, _)
find_labeled_amount(text, label_patterns) ==
    IF label_patterns = <<>> THEN None
    ELSE LET lp == Head(label_patterns)
             is == {i \in DOMAIN text : text[i].w \in lp.lang /\ AmountAfter(text, i) # 0}
             v == IF is = {} THEN None ELSE FloatOfGroup1(text, lp, MinOf(is))
         IN  IF v # None THEN v ELSE find_labeled_amount(text, Tail(label_patterns))

extract_terms_from_pages(pages) ==
    LET txt == JoinLines(pages)
        cand == {i \in DOMAIN txt : txt[i].w \in RATE_LABELS /\ RateAfter(txt, i) # 0}
    IN  [rate |-> IF cand # {} THEN txt[RateAfter(txt, MinOf(cand))].n ELSE parse_rate(txt),
         pi |-> find_labeled_amount(txt, PI_LABELS),
         escrow |-> find_labeled_amount(txt, ESCROW_LABELS),
         total |-> find_labeled_amount(txt, TOTAL_LABELS)]

NoTerms == [rate |-> None, pi |-> None, escrow |-> None, total |-> None]

MergeTerms(acc, terms) ==
    [k \in {"rate", "pi", "escrow", "total"} |->
        IF acc[k] = None /\ terms[k] # None THEN terms[k] ELSE acc[k]]

Enough(t) == t.pi # None /\ t.total # None /\ t.rate # None

PREFERRED_TYPES == <<"BILLING", "PAYMENT_HISTORY", "ESCROW", "OTHER">>

IndicesOfType(docs, t) ==
    LET pick(i) == docs[i].doc_type = t
    IN  SelectSeq([i \in 1..Len(docs) |-> i], pick)

\* the visit order without the preferred_types loop: non-MODIFICATION documents as uploaded
BaselineVisitOrder_upload_order(docs) ==
    LET pick(i) == docs[i].doc_type # "MODIFICATION"
    IN  SelectSeq([i \in 1..Len(docs) |-> i], pick)

BaselineVisitOrder(docs) ==
    Flatten([k \in 1..Len(PREFERRED_TYPES) |-> IndicesOfType(docs, PREFERRED_TYPES[k])])

RECURSIVE baseline_loop(_, _, _, _)
baseline_loop(docs, order, baseline, ev) ==
    IF order = <<>> THEN [terms |-> baseline, ev |-> dedupe_evidence(ev)]
    ELSE LET d == docs[Head(order)]
             hits == find_hits(d.pages, BASELINE_PATTERNS, 2)
             ev2 == ev \o evidence_from_hits(d.doc_name, hits)
             b2 == MergeTerms(baseline, extract_terms_from_pages(d.pages))
         IN  IF Enough(b2) THEN [terms |-> b2, ev |-> dedupe_evidence(ev2)]
             ELSE baseline_loop(docs, Tail(order), b2, ev2)

infer_baseline_from_non_mod_docs(docs) ==
    baseline_loop(docs, BaselineVisitOrder(docs), NoTerms, <<>>)

\* the modification loop without "if doc_type != MODIFICATION: continue"
RECURSIVE mod_loop_all_docs(_, _, _, _, _)
mod_loop_all_docs(docs, i, new_terms, term_ev, cap_ev) ==
    IF i > Len(docs)
    THEN [terms |-> new_terms, term_ev |-> dedupe_evidence(term_ev),
          cap_ev |-> dedupe_evidence(cap_ev)]
    ELSE LET d == docs[i]
             t2 == term_ev \o evidence_from_hits(d.doc_name, find_hits(d.pages, TERM_PATTERNS, 3))
             c2 == cap_ev \o evidence_from_hits(d.doc_name, find_hits(d.pages, CAP_PATTERNS, 2))
             n2 == MergeTerms(new_terms, extract_terms_from_pages(d.pages))
         IN  IF Enough(n2)
             THEN [terms |-> n2, term_ev |-> dedupe_evidence(t2), cap_ev |-> dedupe_evidence(c2)]
             ELSE mod_loop_all_docs(docs, i + 1, n2, t2, c2)

RECURSIVE mod_loop(_, _, _, _, _)
mod_loop(docs, i, new_terms, term_ev, cap_ev) ==
    IF i > Len(docs)
    THEN [terms |-> new_terms, term_ev |-> dedupe_evidence(term_ev),
          cap_ev |-> dedupe_evidence(cap_ev)]
    ELSE IF docs[i].doc_type # "MODIFICATION"
    THEN mod_loop(docs, i + 1, new_terms, term_ev, cap_ev)
    ELSE LET d == docs[i]
             t2 == term_ev \o evidence_from_hits(d.doc_name, find_hits(d.pages, TERM_PATTERNS, 3))
             c2 == cap_ev \o evidence_from_hits(d.doc_name, find_hits(d.pages, CAP_PATTERNS, 2))
             n2 == MergeTerms(new_terms, extract_terms_from_pages(d.pages))
         IN  IF Enough(n2)
             THEN [terms |-> n2, term_ev |-> dedupe_evidence(t2), cap_ev |-> dedupe_evidence(c2)]
             ELSE mod_loop(docs, i + 1, n2, t2, c2)

infer_mod_terms_from_mod_docs(docs) == mod_loop(docs, 1, NoTerms, <<>>, <<>>)

---------------------------------------------------------------------------
(* Scorecard and outcome rules *)

ScoreItem(id, status, found, policy, evidence, request_next) ==
    [id |-> id, status |-> status, what_we_found |-> found, policy_context |-> policy,
     evidence |-> evidence, request_next |-> request_next]

\* x > y + 0.01 on floats read from two-decimal literals: decided by the amounts except
\* when x is exactly one cent above y, where the rounding of y + 0.01 decides
ExceedsCent(x, y, roundsBelow) == x > y + 1 \/ (x = y + 1 /\ roundsBelow)

RECURSIVE BucketOf(_, _, _)
BucketOf(docs, patterns, max_hits) ==
    IF docs = <<>> THEN <<>>
    ELSE evidence_from_hits(Head(docs).doc_name, find_hits(Head(docs).pages, patterns, max_hits))
         \o BucketOf(Tail(docs), patterns, max_hits)

REQ_PLAN_RECORD_S1 == "Request the complete COVID forbearance plan record and system notes (start/end dates)."
REQ_PLAN_RECORD_S2 == "Provide the complete forbearance plan record and system notes (start/end dates)."
REQ_CAP_INSUFFICIENT == "Provide the arrears/capitalization reconciliation (itemized breakdown)."
REQ_CAP_OUTCOME == "Provide the arrears/capitalization reconciliation showing what amounts were rolled in and why."
MSG_INSUFFICIENT == "We do not have enough extracted baseline and/or modification term data to run a reliable outcome comparison."
MSG_NO_INCREASE == "No obvious payment or rate increase detected from extracted fields (limited to what we could read)."
MSG_RATE_UP == "Interest rate increased"
MSG_PI_UP == "P&I increased"
MSG_TOTAL_UP_PI_SAME == "Total payment increased but P&I appears unchanged (possible escrow-driven). Needs escrow itemization."
MSG_TOTAL_UP_PI_UNCLEAR == "Total payment increased but P&I breakdown is unclear. Treat as conflict unless escrow-only is documented."
MSG_CAP == "Arrears/capitalization appears referenced. Needs itemized arrears/capitalization reconciliation (what was added and why)."

S1Item(forb_ev, note) ==
    IF forb_ev # <<>>
    THEN ScoreItem("S1", "EVIDENCE FOUND",
                   <<"We found COVID/forbearance-related language in your documents.">>,
                   note, Take(forb_ev, 4), <<>>)
    ELSE ScoreItem("S1", "MISSING",
                   <<"We did not find clear COVID forbearance documentation in the text we could read.">>,
                   note, <<>>,
                   <<REQ_PLAN_RECORD_S1,
                     "Request any forbearance approval/confirmation letters or portal messages.">>)

\* S2 with "if delin_ev" in place of "if delin_ev and forb_ev"
S2Item_delin_only(forb_ev, delin_ev) ==
    IF delin_ev # <<>>
    THEN ScoreItem("S2", "CONFLICT", <<"We found delinquency/late-fee language.">>,
                   "CARES/VA relief intent", Take(Take(delin_ev, 2) \o Take(forb_ev, 2), 4),
                   <<"Provide a transaction-level ledger for the forbearance months showing exact payment application and fee assessment.">>)
    ELSE ScoreItem("S2", "NEEDS CLARIFICATION",
                   <<"We did not find delinquency/late-fee language in the text we could read.">>,
                   "If you suspect delinquency/fees occurred, upload statements", <<>>, <<>>)

S2Item(forb_ev, delin_ev) ==
    IF delin_ev # <<>> /\ forb_ev # <<>>
    THEN ScoreItem("S2", "CONFLICT",
                   <<"We found delinquency/late-fee language and forbearance/COVID language in the documents.">>,
                   "CARES/VA relief intent",
                   Take(Take(delin_ev, 2) \o Take(forb_ev, 2), 4),
                   <<"Provide a transaction-level ledger for the forbearance months showing exact payment application and fee assessment.",
                     "Explain any delinquency coding and late fees during active forbearance (cite dates).">>)
    ELSE IF delin_ev # <<>> /\ forb_ev = <<>>
    THEN ScoreItem("S2", "NEEDS CLARIFICATION",
                   <<"We found delinquency/late-fee language, but did not find a clear forbearance record in the text we could read.">>,
                   "Protected-status evaluation requires dates",
                   Take(delin_ev, 3),
                   <<REQ_PLAN_RECORD_S2,
                     "Provide a transaction-level payment ledger covering the same months.">>)
    ELSE ScoreItem("S2", "NEEDS CLARIFICATION",
                   <<"We did not find delinquency/late-fee language in the text we could read.">>,
                   "If you suspect delinquency/fees occurred, upload statements", <<>>, <<>>)

\* S3 reporting the absence of suspense language as a finding
S3Item_absence_found(suspense_ev) ==
    IF suspense_ev # <<>>
    THEN ScoreItem("S3", "CONFLICT", <<"We found 'suspense' references in the documents.">>,
                   "misapplication can create compounding harm", Take(suspense_ev, 4), <<>>)
    ELSE ScoreItem("S3", "EVIDENCE FOUND",
                   <<"We did not detect suspense language in the text we could read.">>,
                   "Payment application checks require a transaction ledger", <<>>, <<>>)

S3Item(suspense_ev) ==
    IF suspense_ev # <<>>
    THEN ScoreItem("S3", "CONFLICT", <<"We found 'suspense' references in the documents.">>,
                   "misapplication can create compounding harm", Take(suspense_ev, 4),
                   <<"Provide a transaction-level payment ledger showing application to principal/interest/escrow/suspense.",
                     "Provide a suspense reconciliation showing when/why it was created and when it was cleared.">>)
    ELSE ScoreItem("S3", "NEEDS CLARIFICATION",
                   <<"We did not detect suspense language in the text we could read.">>,
                   "Payment application checks require a transaction ledger", <<>>, <<>>)

AnyTerm(t) == \E k \in DOMAIN t : t[k] # None

\* S4 with "if baseline" (a dict, always true) in place of "if any(v is not None ...)"
S4Item_dict_truthy(baseline, baseline_ev) ==
    ScoreItem("S4", "EVIDENCE FOUND", <<"Inferred baseline (best effort)">>,
              "If baseline terms are wrong/missing, upload a pre-mod statement",
              Take(baseline_ev, 4), <<>>)

S4Item(baseline, baseline_ev) ==
    IF AnyTerm(baseline)
    THEN ScoreItem("S4", "EVIDENCE FOUND", <<"Inferred baseline (best effort)">>,
                   "If baseline terms are wrong/missing, upload a pre-mod statement",
                   Take(baseline_ev, 4), <<>>)
    ELSE ScoreItem("S4", "MISSING",
                   <<"We could not infer baseline terms (pre-mod payment and rate) from the text we read.">>,
                   "Upload a pre-mod statement or note disclosure", <<>>,
                   <<"Upload a pre-mod monthly statement showing P&I, escrow, and total payment.",
                     "Upload any note/closing disclosure page showing the original interest rate (or a statement that shows it).">>)

S5Item(new_terms, mod_terms_ev, cap_ev) ==
    IF AnyTerm(new_terms) \/ mod_terms_ev # <<>>
    THEN ScoreItem("S5", "EVIDENCE FOUND", <<"Inferred modification terms (best effort)">>,
                   "If any of these terms look wrong, increase OCR pages",
                   Take(Take(mod_terms_ev, 3) \o Take(cap_ev, 1), 4), <<>>)
    ELSE ScoreItem("S5", "MISSING",
                   <<"We did not reliably extract modification terms (rate/payment) from the text we could read.">>,
                   "Upload the signed modification agreement pages", <<>>,
                   <<"Upload the page(s) of the modification agreement showing the new interest rate and the new payment breakdown.",
                     "Increase OCR pages per document if the modification PDF is scanned.">>)

S6Conflicts(b, n, rnd) ==
    (IF b.rate # None /\ n.rate # None /\ n.rate > b.rate THEN <<MSG_RATE_UP>> ELSE <<>>)
    \o (IF b.pi # None /\ n.pi # None /\ ExceedsCent(n.pi, b.pi, rnd.pi)
        THEN <<MSG_PI_UP>> ELSE <<>>)

\* needs without the "if cap_ev" append
S6Needs_without_cap(b, n, cap_ev, rnd) ==
    IF b.total # None /\ n.total # None /\ ExceedsCent(n.total, b.total, rnd.total)
    THEN IF b.pi # None /\ n.pi # None /\ ~ExceedsCent(n.pi, b.pi, rnd.pi)
         THEN <<MSG_TOTAL_UP_PI_SAME>>
         ELSE IF b.pi = None \/ n.pi = None THEN <<MSG_TOTAL_UP_PI_UNCLEAR>> ELSE <<>>
    ELSE <<>>

\* needs without the escrow-driven branch of the total comparison
S6Needs_without_escrow_branch(b, n, cap_ev, rnd) ==
    (IF b.total # None /\ n.total # None /\ ExceedsCent(n.total, b.total, rnd.total)
        /\ (b.pi = None \/ n.pi = None)
     THEN <<MSG_TOTAL_UP_PI_UNCLEAR>> ELSE <<>>)
    \o (IF cap_ev # <<>> THEN <<MSG_CAP>> ELSE <<>>)

S6Needs(b, n, cap_ev, rnd) ==
    (IF b.total # None /\ n.total # None /\ ExceedsCent(n.total, b.total, rnd.total)
     THEN IF b.pi # None /\ n.pi # None /\ ~ExceedsCent(n.pi, b.pi, rnd.pi)
          THEN <<MSG_TOTAL_UP_PI_SAME>>
          ELSE IF b.pi = None \/ n.pi = None THEN <<MSG_TOTAL_UP_PI_UNCLEAR>> ELSE <<>>
     ELSE <<>>)
    \o (IF cap_ev # <<>> THEN <<MSG_CAP>> ELSE <<>>)

\* status with "if needs" tested before "if conflicts"
S6Status_needs_first(conflicts, needs) ==
    IF needs # <<>> THEN "NEEDS CLARIFICATION"
    ELSE IF conflicts # <<>> THEN "CONFLICT"
    ELSE "EVIDENCE FOUND"

\* status with a fifth value on the last branch
S6Status_unlisted(conflicts, needs) ==
    IF conflicts # <<>> THEN "CONFLICT"
    ELSE IF needs # <<>> THEN "NEEDS CLARIFICATION"
    ELSE "NO CONFLICT"

S6Status(conflicts, needs) ==
    IF conflicts # <<>> THEN "CONFLICT"
    ELSE IF needs # <<>> THEN "NEEDS CLARIFICATION"
    ELSE "EVIDENCE FOUND"

\* the outcome check without its insufficient-data test
S6Insufficient_never(b, n) == FALSE

S6Insufficient(b, n) ==
    \/ (b.rate = None /\ b.pi = None /\ b.total = None)
    \/ (n.rate = None /\ n.pi = None /\ n.total = None)

S6Item(baseline, new_terms, mod_terms_ev, baseline_ev, cap_ev, rnd) ==
    LET outcome_evidence == Take(mod_terms_ev \o baseline_ev \o cap_ev, 6)
        policy == "Outcome-based rule"
    IN  IF S6Insufficient(baseline, new_terms)
        THEN ScoreItem("S6", "NEEDS CLARIFICATION", <<MSG_INSUFFICIENT>>, policy, outcome_evidence,
                       <<"Provide a pre-mod and post-mod statement showing P&I vs escrow vs total payment.",
                         "Provide the page listing the new interest rate in the modification agreement.",
                         REQ_CAP_INSUFFICIENT>>)
        ELSE LET conflicts == S6Conflicts(baseline, new_terms, rnd)
                 needs == S6Needs(baseline, new_terms, cap_ev, rnd)
                 status == S6Status(conflicts, needs)
                 found == IF conflicts # <<>> THEN conflicts
                          ELSE IF needs # <<>> THEN needs ELSE <<MSG_NO_INCREASE>>
                 req == IF status \in {"CONFLICT", "NEEDS CLARIFICATION"}
                        THEN <<"Provide the pre-mod vs post-mod payment comparison used at the time (P&I vs escrow).",
                               REQ_CAP_OUTCOME,
                               "Provide any option evaluation/waterfall showing what alternatives were considered and why the final option was selected.">>
                        ELSE <<>>
             IN  ScoreItem("S6", status, found, policy, outcome_evidence, req)

S7Item(va_ev) ==
    IF va_ev # <<>>
    THEN ScoreItem("S7", "EVIDENCE FOUND",
                   <<"We found VA/Loan Guaranty/VALERI-related references in the uploaded text.">>,
                   "Absence does not prove non-notification", Take(va_ev, 4), <<>>)
    ELSE ScoreItem("S7", "MISSING",
                   <<"We did not find clear VA coordination references in the text we read.">>,
                   "Borrower research: request VA case identifiers", <<>>,
                   <<"Request any VA case identifiers or confirmation of VA notifications (dates/methods) tied to forbearance and loss mitigation.",
                     "If you have FOIA records, Deep Mode later can analyze VA internal timelines.">>)

ForbEvidence(docs) == dedupe_evidence(BucketOf(docs, FORB_PATTERNS, 2))
DelinEvidence(docs) == dedupe_evidence(BucketOf(docs, DELIN_PATTERNS, 2))

build_scorecard(docs, fs, fe, rnd) ==
    LET note == policy_blurb(fs, fe)
        forb_ev == ForbEvidence(docs)
        delin_ev == DelinEvidence(docs)
        suspense_ev == dedupe_evidence(BucketOf(docs, SUSPENSE_PATTERNS, 2))
        va_ev == dedupe_evidence(BucketOf(docs, VA_PATTERNS, 2))
        base == infer_baseline_from_non_mod_docs(docs)
        mod == infer_mod_terms_from_mod_docs(docs)
    IN  [items |-> <<S1Item(forb_ev, note),
                     S2Item(forb_ev, delin_ev),
                     S3Item(suspense_ev),
                     S4Item(base.terms, base.ev),
                     S5Item(mod.terms, mod.term_ev, mod.cap_ev),
                     S6Item(base.terms, mod.terms, mod.term_ev, base.ev, mod.cap_ev, rnd),
                     S7Item(va_ev)>>,
         policy_note |-> note]

---------------------------------------------------------------------------
(* Inputs *)

MaxPages == 3          \* pages over all uploaded files of a run

DEFAULT_FORB_START == 737425    \* dt.date(2020, 1, 1).toordinal()

DocNames == {"a.pdf", "b.pdf"}

T_FORB == <<Word("forbearance"), Word("approved")>>
T_LATE == <<Word("late fee"), WS, Word("assessed")>>
T_SUSPENSE_VA == <<Word("the"), Word("suspense"), Word("VA")>>
\* "rate 3.00%APR": a rate that only parse_rate reads, under no label
T_RATE == <<Word("rate"), PctGlued(3000)>>
T_STATEMENT == <<Word("amount due"), Amt(145000), NL, Word("interest rate"), Pct(3250)>>
T_MOD == <<Word("loan modification"), Word("interest rate"), Pct(3250), NL,
           Word("monthly payment"), Amt(160000)>>
T_CAP == <<Word("change in terms"), Word("capitalized")>>
KeywordTexts == {<<>>, T_FORB, T_LATE, T_SUSPENSE_VA, T_RATE, T_STATEMENT, T_MOD, T_CAP}

PageSeqs(texts, lo, hi) == UNION {[1..n -> texts] : n \in lo..hi}

Upload(name, pages) == [name |-> name, pages |-> pages]

RECURSIVE TotalPages(_)
TotalPages(ups) == IF ups = <<>> THEN 0 ELSE Len(Head(ups).pages) + TotalPages(Tail(ups))

Windows == {<<DEFAULT_FORB_START, CARES_EFFECTIVE - 1>>, <<DEFAULT_FORB_START, CARES_EFFECTIVE>>}

Rounding == [pi : BOOLEAN, total : BOOLEAN]
NoRounding == [pi |-> FALSE, total |-> FALSE]

NoArgs == [none |-> TRUE]
NoRet == [hits |-> <<>>, last |-> 0]

---------------------------------------------------------------------------
(* The "Run outcome-based scorecard" handler *)

Init ==
    \E win \in Windows :
        /\ pc = "idle"
        /\ uploads = <<>>
        /\ forb_start = win[1]
        /\ forb_end = win[2]
        /\ fp = NoRounding
        /\ docs_text = <<>>
        /\ items = <<>>
        /\ policy_note = ""
        /\ summary = ""
        /\ args = NoArgs
        /\ ret = NoRet

InputsUnchanged == UNCHANGED <<uploads, forb_start, forb_end, fp, args, ret>>

\* st.file_uploader: the user adds a file of one page or more
UploadFile ==
    /\ pc = "idle"
    /\ \E nm \in DocNames, ps \in PageSeqs(KeywordTexts, 1, MaxPages - TotalPages(uploads)) :
           uploads' = Append(uploads, Upload(nm, ps))
    /\ UNCHANGED <<pc, forb_start, forb_end, fp, docs_text, items, policy_note, summary, args, ret>>

\* if not uploads: st.error(...); st.stop()
RunWithoutUploads ==
    /\ pc = "idle"
    /\ uploads = <<>>
    /\ pc' = "stopped"
    /\ UNCHANGED <<docs_text, items, policy_note, summary>>
    /\ InputsUnchanged

RunStart ==
    /\ pc = "idle"
    /\ uploads # <<>>
    /\ pc' = "reading"
    /\ docs_text' = <<>>
    /\ UNCHANGED <<items, policy_note, summary>>
    /\ InputsUnchanged

\* one turn of: for u in uploads
ReadDocument ==
    /\ pc = "reading"
    /\ Len(docs_text) < Len(uploads)
    /\ LET u == uploads[Len(docs_text) + 1]
           pages == u.pages
       IN  docs_text' = Append(docs_text, [doc_name |-> u.name, doc_type |-> classify_doc(pages),
                                           pages |-> pages])
    /\ UNCHANGED <<pc, items, policy_note, summary>>
    /\ InputsUnchanged

Scorecard ==
    /\ pc = "reading"
    /\ Len(docs_text) = Len(uploads)
    /\ LET r == build_scorecard(docs_text, forb_start, forb_end, fp)
       IN  items' = r.items /\ policy_note' = r.policy_note
    /\ pc' = "scored"
    /\ UNCHANGED <<docs_text, summary>>
    /\ InputsUnchanged

HasStatus(its, st) == \E k \in DOMAIN its : its[k].status = st

ExecutiveSummary ==
    /\ pc = "scored"
    /\ summary' = IF HasStatus(items, "CONFLICT") THEN "conflicts"
                  ELSE IF HasStatus(items, "MISSING") \/ HasStatus(items, "NEEDS CLARIFICATION")
                  THEN "incomplete"
                  ELSE "no obvious conflicts"
    /\ pc' = "done"
    /\ UNCHANGED <<docs_text, items, policy_note>>
    /\ InputsUnchanged

\* the next run of the script, with the button not pressed: nothing of the last run is kept
Rerun ==
    /\ pc \in {"done", "stopped"}
    /\ pc' = "idle"
    /\ docs_text' = <<>>
    /\ items' = <<>>
    /\ policy_note' = ""
    /\ summary' = ""
    /\ InputsUnchanged

Next ==
    \/ UploadFile
    \/ RunWithoutUploads
    \/ RunStart
    \/ ReadDocument
    \/ Scorecard
    \/ ExecutiveSummary
    \/ Rerun

Spec == Init /\ [][Next]_vars

---------------------------------------------------------------------------
(* build_scorecard called on a document list directly *)

InitCore ==
    \E win \in Windows :
        /\ pc = "core"
        /\ uploads = <<>>
        /\ forb_start = win[1]
        /\ forb_end = win[2]
        /\ fp = NoRounding
        /\ docs_text = <<>>
        /\ items = <<>>
        /\ policy_note = ""
        /\ summary = ""
        /\ args = NoArgs
        /\ ret = NoRet

\* the caller puts one more (doc_name, doc_type, pages) on the list it will pass
CoreAddDocument ==
    /\ pc = "core"
    /\ \E nm \in DocNames, ps \in PageSeqs(KeywordTexts, 1, MaxPages - TotalPages(docs_text)) :
           docs_text' = Append(docs_text, [doc_name |-> nm, doc_type |-> classify_doc(ps),
                                           pages |-> ps])
    /\ UNCHANGED <<pc, items, policy_note, summary>>
    /\ InputsUnchanged

CoreCall ==
    /\ pc = "core"
    /\ LET r == build_scorecard(docs_text, forb_start, forb_end, fp)
       IN  items' = r.items /\ policy_note' = r.policy_note
    /\ pc' = "scored"
    /\ UNCHANGED <<docs_text, summary>>
    /\ InputsUnchanged

SpecCore == InitCore /\ [][CoreAddDocument \/ CoreCall]_vars

---------------------------------------------------------------------------
(* The outcome check (S6) of build_scorecard on inferred terms of every shape *)

MaxRateStep == 1       \* rates range over BaseRate .. BaseRate + MaxRateStep
MaxCentStep == 2       \* amounts range over BaseAmount .. BaseAmount + MaxCentStep

BaseRate == 3250                \* 3.25%
BaseAmount == 120000            \* $1,200.00

Rates == {None} \cup (BaseRate..(BaseRate + MaxRateStep))
Amounts == {None} \cup (BaseAmount..(BaseAmount + MaxCentStep))
InferredTerms == [rate : Rates, pi : Amounts, escrow : {None, BaseAmount}, total : Amounts]

CapRef == [doc_name |-> "b.pdf", page_number |-> 1, quote |-> <<Word("capitalized")>>,
           search_phrase |-> <<Word("capitalized")>>]

InitOutcome ==
    \E b \in InferredTerms, n \in InferredTerms, cap \in BOOLEAN, rnd \in Rounding :
        /\ pc = "outcome"
        /\ args = [baseline |-> b, new_terms |-> n, mod_terms_ev |-> <<>>, baseline_ev |-> <<>>,
                   cap_ev |-> IF cap THEN <<CapRef>> ELSE <<>>]
        /\ fp = rnd
        /\ uploads = <<>>
        /\ forb_start = DEFAULT_FORB_START
        /\ forb_end = CARES_EFFECTIVE
        /\ docs_text = <<>>
        /\ items = <<>>
        /\ policy_note = ""
        /\ summary = ""
        /\ ret = NoRet

OutcomeCheck ==
    /\ pc = "outcome"
    /\ items' = <<S6Item(args.baseline, args.new_terms, args.mod_terms_ev, args.baseline_ev,
                         args.cap_ev, fp)>>
    /\ pc' = "compared"
    /\ UNCHANGED <<docs_text, policy_note, summary>>
    /\ InputsUnchanged

SpecOutcome == InitOutcome /\ [][OutcomeCheck]_vars

---------------------------------------------------------------------------
(* find_hits called on its own *)

MaxHitPages == 4       \* pages of one find_hits call
MaxMaxHits == 3        \* largest max_hits

ReAny == [lang |-> {}, nullable |-> TRUE]      \* a pattern that matches the empty string
HitTexts == {NoneText, <<>>, <<WS>>, T_FORB, T_LATE}
HitPatternLists == {FORB_PATTERNS, <<Re({"late fee"})>>,
                    <<Re({"suspense"}), Re({"forbearance"})>>, <<ReAny>>}

InitHits ==
    \E pages \in PageSeqs(HitTexts, 0, MaxHitPages), pats \in HitPatternLists, mh \in 1..MaxMaxHits :
        /\ pc = "find_hits"
        /\ args = [pages |-> pages, patterns |-> pats, max_hits |-> mh]
        /\ ret = NoRet
        /\ uploads = <<>>
        /\ forb_start = DEFAULT_FORB_START
        /\ forb_end = CARES_EFFECTIVE
        /\ fp = NoRounding
        /\ docs_text = <<>>
        /\ items = <<>>
        /\ policy_note = ""
        /\ summary = ""

FindHitsCall ==
    /\ pc = "find_hits"
    /\ ret' = find_hits_scan(args.pages, args.patterns, args.max_hits, 1, <<>>)
    /\ pc' = "returned"
    /\ UNCHANGED <<uploads, forb_start, forb_end, fp, docs_text, items, policy_note, summary, args>>

SpecHits == InitHits /\ [][FindHitsCall]_vars

---------------------------------------------------------------------------
(* Properties of the outcome check (S6), under SpecOutcome *)

ItemOf(id) == items[CHOOSE k \in DOMAIN items : items[k].id = id]

Compared == pc = "compared"

\* the comparisons of the outcome check on this call's arguments
RateUp == /\ args.baseline.rate # None /\ args.new_terms.rate # None
          /\ args.new_terms.rate > args.baseline.rate
PIKnown == args.baseline.pi # None /\ args.new_terms.pi # None
PIUp == PIKnown /\ ExceedsCent(args.new_terms.pi, args.baseline.pi, fp.pi)
TotalUp == /\ args.baseline.total # None /\ args.new_terms.total # None
           /\ ExceedsCent(args.new_terms.total, args.baseline.total, fp.total)
ComparisonRuns ==
    /\ args.baseline.rate # None \/ args.baseline.pi # None \/ args.baseline.total # None
    /\ args.new_terms.rate # None \/ args.new_terms.pi # None \/ args.new_terms.total # None

C2_StatusPrecedence ==
    (Compared /\ ComparisonRuns) =>
        ItemOf("S6").status =
            IF RateUp \/ PIUp THEN "CONFLICT"
            ELSE IF TotalUp \/ args.cap_ev # <<>> THEN "NEEDS CLARIFICATION"
            ELSE "EVIDENCE FOUND"

\* a rate increase with every other field absent, next to recorded needs
C2_RateUpAloneConflicts ==
    /\ Compared
    /\ args.baseline = [NoTerms EXCEPT !.rate = BaseRate]
    /\ args.new_terms = [NoTerms EXCEPT !.rate = BaseRate + 1]
    /\ args.cap_ev # <<>>
    /\ ItemOf("S6").status = "CONFLICT"

\* C4: when the total increased by more than 0.01, P&I is known on both sides and did
\* not increase by more than 0.01, and the rate did not increase, S6 is NEEDS
\* CLARIFICATION, with or without capitalization evidence.
C4_EscrowDrivenIncreaseNeedsClarification ==
    (Compared /\ TotalUp /\ PIKnown /\ ~PIUp /\ ~RateUp) =>
        ItemOf("S6").status = "NEEDS CLARIFICATION"

\* total up, P&I the same on both sides, no capitalization evidence
C4_TotalUpPISame ==
    /\ Compared /\ TotalUp /\ ~RateUp
    /\ args.baseline.pi # None /\ args.new_terms.pi = args.baseline.pi
    /\ args.cap_ev = <<>>
    /\ ItemOf("S6").status = "NEEDS CLARIFICATION"
    /\ ItemOf("S6").what_we_found = <<MSG_TOTAL_UP_PI_SAME>>

\* C5: whenever the capitalization/arrears evidence is non-empty, S6 is CONFLICT or
\* NEEDS CLARIFICATION, never EVIDENCE FOUND, and its request_next holds an
\* arrears/capitalization reconciliation request, whether or not the comparison ran.
C5_CapEvidenceNeedsReconciliation ==
    (Compared /\ args.cap_ev # <<>>) =>
        /\ ItemOf("S6").status \in {"CONFLICT", "NEEDS CLARIFICATION"}
        /\ \E k \in DOMAIN ItemOf("S6").request_next :
               ItemOf("S6").request_next[k] \in {REQ_CAP_INSUFFICIENT, REQ_CAP_OUTCOME}

\* capitalization evidence with a comparison that ran and found nothing increased
C5_CapEvidenceNothingIncreased ==
    /\ Compared /\ ComparisonRuns /\ args.cap_ev # <<>>
    /\ ~RateUp /\ ~PIUp /\ ~TotalUp
    /\ args.baseline.total # None /\ args.new_terms.total # None
    /\ ItemOf("S6").status = "NEEDS CLARIFICATION"
    /\ ItemOf("S6").what_we_found = <<MSG_CAP>>

---------------------------------------------------------------------------
(* Properties of a run of the handler, under Spec *)

Scored == pc = "scored"

\* the document has a readable page on which one of the patterns is found
HasFamily(d, patterns) ==
    \E i \in DOMAIN d.pages :
        Truthy(d.pages[i]) /\ \E k \in DOMAIN patterns : re_search(patterns[k], d.pages[i])

RefersTo(e, patterns) ==
    \E j \in DOMAIN docs_text :
        /\ docs_text[j].doc_name = e.doc_name
        /\ e.page_number \in DOMAIN docs_text[j].pages
        /\ Truthy(docs_text[j].pages[e.page_number])
        /\ \E k \in DOMAIN patterns : re_search(patterns[k], docs_text[j].pages[e.page_number])

BothTermsEmpty ==
    /\ infer_baseline_from_non_mod_docs(docs_text).terms = NoTerms
    /\ infer_mod_terms_from_mod_docs(docs_text).terms = NoTerms

\* C3: when the inferred baseline and the inferred new terms are both entirely empty,
\* S6 is NEEDS CLARIFICATION with the insufficient-data message, never CONFLICT,
\* whatever term, baseline and capitalization evidence was collected.
C3_EmptyTermsNeedClarification ==
    (Scored /\ BothTermsEmpty) =>
        /\ ItemOf("S6").status = "NEEDS CLARIFICATION"
        /\ ItemOf("S6").what_we_found = <<MSG_INSUFFICIENT>>

\* no terms on either side, yet capitalization evidence among the S6 evidence
C3_EmptyTermsWithCapEvidence ==
    /\ Scored /\ BothTermsEmpty
    /\ infer_mod_terms_from_mod_docs(docs_text).cap_ev # <<>>
    /\ ItemOf("S6").evidence # <<>>
    /\ ItemOf("S6").status = "NEEDS CLARIFICATION"

C9_ConflictAsksForPlanRecord ==
    (Scored /\ ItemOf("S2").status = "CONFLICT") =>
        LET s2 == ItemOf("S2")
        IN  /\ \E k \in DOMAIN s2.evidence : RefersTo(s2.evidence[k], FORB_PATTERNS)
            /\ \E k \in DOMAIN s2.evidence : RefersTo(s2.evidence[k], DELIN_PATTERNS)
            /\ s2.request_next # <<>>
            /\ \E k \in DOMAIN s2.request_next :
                   s2.request_next[k] \in {REQ_PLAN_RECORD_S1, REQ_PLAN_RECORD_S2}

---------------------------------------------------------------------------
(* Properties of build_scorecard called directly, under SpecCore *)

ItemIds == <<"S1", "S2", "S3", "S4", "S5", "S6", "S7">>
Statuses == {"EVIDENCE FOUND", "MISSING", "CONFLICT", "NEEDS CLARIFICATION"}

\* C6: for every non-empty document list and every forbearance window, build_scorecard
\* returns exactly seven items, with the ids S1..S7 in that order, each once, and each
\* status one of EVIDENCE FOUND, MISSING, CONFLICT, NEEDS CLARIFICATION.
C6_SevenItemsInOrder ==
    (Scored /\ docs_text # <<>>) =>
        /\ Len(items) = 7
        /\ \A k \in DOMAIN items : items[k].id = ItemIds[k] /\ items[k].status \in Statuses

\* a list of two documents, a window ending before the CARES date, all four statuses
C6_TwoDocumentsAllStatuses ==
    /\ Scored
    /\ Len(docs_text) = 2
    /\ forb_end < CARES_EFFECTIVE
    /\ Len(items) = 7
    /\ \A st \in Statuses : HasStatus(items, st)

\* C7: on an empty document list build_scorecard is a no-op: it emits no score items.
C7_EmptyListEmitsNothing ==
    (Scored /\ docs_text = <<>>) => items = <<>>

---------------------------------------------------------------------------
(* Properties of find_hits, under SpecHits *)

Returned == pc = "returned"

\* page i of the call has text and one of the patterns is found in it
Matches(i) ==
    /\ Truthy(args.pages[i])
    /\ \E k \in DOMAIN args.patterns : re_search(args.patterns[k], args.pages[i])

MatchingPages == {i \in DOMAIN args.pages : Matches(i)}

\* C10: find_hits returns exactly the first min(max_hits, m) matching pages, m the number
\* of non-empty pages matched by a pattern, as 1-indexed page numbers in increasing
\* order: never more than max_hits entries, never an entry for an empty or None page,
\* and no page after the max_hits-th match is examined.
C10_FirstMatchingPages ==
    Returned =>
        LET m == Cardinality(MatchingPages)
            n == Min(args.max_hits, m)
        IN  /\ Len(ret.hits) = n
            /\ \A j \in 1..n :
                   /\ ret.hits[j].page \in MatchingPages
                   /\ Cardinality({i \in MatchingPages : i < ret.hits[j].page}) = j - 1
            /\ m >= args.max_hits => ret.last = ret.hits[n].page

\* two hits asked for and returned, an empty page skipped, matching pages left unread
C10_StopsAtMaxHits ==
    /\ Returned
    /\ args.max_hits = 2
    /\ Len(ret.hits) = 2
    /\ \E i \in 1..ret.last : ~Truthy(args.pages[i])
    /\ \E i \in MatchingPages : i > ret.last

---------------------------------------------------------------------------
(* Properties of the items of a scorecard, under SpecCore and Spec *)

AllPagesEmpty ==
    \A j \in DOMAIN docs_text : \A i \in DOMAIN docs_text[j].pages : docs_text[j].pages[i] = <<>>

\* C13: every score item with status EVIDENCE FOUND or CONFLICT carries at least one
\* evidence reference; an item whose evidence list is empty is MISSING or NEEDS
\* CLARIFICATION.
C13_PositiveFindingHasEvidence ==
    Scored =>
        \A k \in DOMAIN items :
            items[k].status \in {"EVIDENCE FOUND", "CONFLICT"} => items[k].evidence # <<>>

\* C14: when every page of every supplied document has empty text, build_scorecard
\* completes, no item carries an evidence reference and no item is CONFLICT or
\* EVIDENCE FOUND.
C14_EmptyPagesGiveNoFindings ==
    (Scored /\ docs_text # <<>> /\ AllPagesEmpty) =>
        /\ Len(items) = 7
        /\ \A k \in DOMAIN items :
               /\ items[k].evidence = <<>>
               /\ items[k].status \in {"MISSING", "NEEDS CLARIFICATION"}

\* two documents, three empty pages in all, scored
C14_TwoEmptyDocumentsScored ==
    /\ Scored
    /\ Len(docs_text) = 2
    /\ TotalPages(docs_text) = 3
    /\ AllPagesEmpty
    /\ Len(items) = 7

\* C18: in every run S2 and S3 are each CONFLICT or NEEDS CLARIFICATION, never EVIDENCE
\* FOUND or MISSING, so the executive summary never takes its third branch ("No
\* obvious outcome conflicts detected").
C18_ThirdSummaryUnreachable ==
    /\ pc \in {"scored", "done"} =>
           /\ ItemOf("S2").status \in {"CONFLICT", "NEEDS CLARIFICATION"}
           /\ ItemOf("S3").status \in {"CONFLICT", "NEEDS CLARIFICATION"}
    /\ summary # "no obvious conflicts"

\* a finished run without any CONFLICT, with S1, S4, S5 and S6 all EVIDENCE FOUND
C18_NoConflictStillIncomplete ==
    /\ pc = "done"
    /\ summary = "incomplete"
    /\ \A id \in {"S1", "S4", "S5", "S6"} : ItemOf(id).status = "EVIDENCE FOUND"
    /\ ItemOf("S2").status = "NEEDS CLARIFICATION"
    /\ ItemOf("S3").status = "NEEDS CLARIFICATION"

---------------------------------------------------------------------------
(* classify_doc called on its own *)

MaxClassifyPages == 11     \* pages of one classify_doc call

T_HISTORY == <<Word("payment history")>>
T_ESCROW == <<Word("escrow"), Word("account")>>
T_ANALYSIS == <<Word("annual"), Word("analysis")>>
T_BILLING == <<Word("billing statement")>>
T_AGREEMENT == <<Word("modification agreement")>>
ClassifyTexts == {<<>>, T_FORB, T_AGREEMENT, T_HISTORY, T_ESCROW, T_ANALYSIS, T_BILLING}

\* n pages of filler with the texts t1 and t2 on the pages p1 and p2 (0: on no page)
PagesWith(n, filler, p1, t1, p2, t2) ==
    [i \in 1..n |-> IF i = p2 THEN t2 ELSE IF i = p1 THEN t1 ELSE filler]

InitClassify ==
    \E n \in 0..MaxClassifyPages, filler \in {<<>>, T_FORB} :
        \E p1 \in 0..n, p2 \in 0..n, t1 \in ClassifyTexts, t2 \in ClassifyTexts :
            /\ pc = "classify_doc"
            /\ args = [pages |-> PagesWith(n, filler, p1, t1, p2, t2)]
            /\ ret = NoRet
            /\ uploads = <<>>
            /\ forb_start = DEFAULT_FORB_START
            /\ forb_end = CARES_EFFECTIVE
            /\ fp = NoRounding
            /\ docs_text = <<>>
            /\ items = <<>>
            /\ policy_note = ""
            /\ summary = ""

ClassifyCall ==
    /\ pc = "classify_doc"
    /\ ret' = [doc_type |-> classify_doc(args.pages)]
    /\ pc' = "classified"
    /\ UNCHANGED <<uploads, forb_start, forb_end, fp, docs_text, items, policy_note, summary, args>>

SpecClassify == InitClassify /\ [][ClassifyCall]_vars

Classified == pc = "classified"

DocTypes == {"MODIFICATION", "PAYMENT_HISTORY", "ESCROW", "BILLING", "OTHER"}

\* one of the phrases is on one of the leading 10 pages of the call
Leading(phrases) ==
    \E i \in DOMAIN args.pages :
        i <= 10 /\ \E j \in DOMAIN args.pages[i] : args.pages[i][j].w \in phrases

\* C11: classify_doc returns, for every page sequence, the first matching group in the
\* order MODIFICATION, PAYMENT_HISTORY, ESCROW (both 'escrow' and 'analysis' present),
\* BILLING, else OTHER, looking only at the leading 10 pages; modification with billing
\* keywords is MODIFICATION and an all-empty page sequence is OTHER.
C11_FirstMatchingGroup ==
    Classified =>
        /\ ret.doc_type \in DocTypes
        /\ ret.doc_type =
               IF Leading(MOD_KEYWORDS) THEN "MODIFICATION"
               ELSE IF Leading(HISTORY_KEYWORDS) THEN "PAYMENT_HISTORY"
               ELSE IF Leading({"escrow", "escrow analysis"})
                       /\ Leading({"analysis", "escrow analysis"}) THEN "ESCROW"
               ELSE IF Leading(BILLING_KEYWORDS) THEN "BILLING"
               ELSE "OTHER"
        /\ (\A i \in DOMAIN args.pages : args.pages[i] = <<>>) => ret.doc_type = "OTHER"

\* eleven pages, a billing keyword among the first ten and a modification keyword on
\* the eleventh: BILLING
C11_KeywordOnEleventhPageIgnored ==
    /\ Classified
    /\ Len(args.pages) = 11
    /\ args.pages[11] = T_AGREEMENT
    /\ args.pages[4] = T_BILLING
    /\ ret.doc_type = "BILLING"

---------------------------------------------------------------------------
(* dedupe_evidence called on its own *)

MaxEvidence == 3       \* entries of one dedupe_evidence call

EvidenceRefs ==
    [doc_name : DocNames, page_number : {1, 2},
     quote : {<<Word("late fee"), Word("assessed")>>, <<Word("forbearance"), Word("approved")>>},
     search_phrase : {<<>>, <<Word("late fee"), Word("assessed")>>}]

InitDedupe ==
    \E ev_list \in PageSeqs(EvidenceRefs, 0, MaxEvidence) :
        /\ pc = "dedupe_evidence"
        /\ args = [ev_list |-> ev_list]
        /\ ret = NoRet
        /\ uploads = <<>>
        /\ forb_start = DEFAULT_FORB_START
        /\ forb_end = CARES_EFFECTIVE
        /\ fp = NoRounding
        /\ docs_text = <<>>
        /\ items = <<>>
        /\ policy_note = ""
        /\ summary = ""

DedupeCall ==
    /\ pc = "dedupe_evidence"
    /\ ret' = [out |-> dedupe_evidence(args.ev_list)]
    /\ pc' = "deduped"
    /\ UNCHANGED <<uploads, forb_start, forb_end, fp, docs_text, items, policy_note, summary, args>>

SpecDedupe == InitDedupe /\ [][DedupeCall]_vars

Deduped == pc = "deduped"

SameKey(e, f) ==
    e.doc_name = f.doc_name /\ e.page_number = f.page_number /\ e.search_phrase = f.search_phrase

\* the positions of the input that hold the first entry of their key
FirstOfKey == {i \in DOMAIN args.ev_list :
                  \A j \in 1..(i - 1) : ~SameKey(args.ev_list[j], args.ev_list[i])}

\* the result is the input restricted to the first entry of each key, in input order
KeepsFirstOfEachKey ==
    /\ Len(ret.out) = Cardinality(FirstOfKey)
    /\ \A i \in FirstOfKey :
           ret.out[Cardinality({j \in FirstOfKey : j <= i})] = args.ev_list[i]

\* C12: dedupe_evidence returns a subsequence of its input in first-seen order in which
\* no two entries share the key (doc_name, page_number, search_phrase), keeping the
\* first entry of each key; applying it twice gives the same list; and two entries with
\* the same document and page and an empty search_phrase are both kept when their
\* quotes differ.
C12_DedupeByPhraseOrQuote ==
    Deduped =>
        /\ KeepsFirstOfEachKey
        /\ dedupe_evidence(ret.out) = ret.out
        /\ \A i \in DOMAIN args.ev_list : \A j \in DOMAIN args.ev_list :
               (/\ i < j
                /\ SameKey(args.ev_list[i], args.ev_list[j])
                /\ args.ev_list[i].search_phrase = <<>>
                /\ args.ev_list[i].quote # args.ev_list[j].quote)
               => \E k \in DOMAIN ret.out : ret.out[k] = args.ev_list[j]

---------------------------------------------------------------------------
(* infer_baseline_from_non_mod_docs and infer_mod_terms_from_mod_docs called on their own *)

MaxInferDocs == 3      \* documents of one call

InferNames == <<"a.pdf", "b.pdf", "c.pdf", "d.pdf">>

\* the pages of the i-th document: nothing to read, a labelled rate of its own, a page
\* that states rate, P&I and total under their labels, or capitalization language
InferPages(i) ==
    {<<<<>>>>,
     <<<<Word("interest rate"), Pct(BaseRate + i)>>>>,
     <<<<Word("interest rate"), Pct(BaseRate + i), NL, Word("P&I"), Amt(BaseAmount), NL,
         Word("total monthly payment"), Amt(BaseAmount + 40000)>>>>,
     <<<<Word("capitalized")>>, <<>>>>}

InitInfer ==
    /\ pc = "infer"
    /\ docs_text = <<>>
    /\ args = NoArgs
    /\ ret = NoRet
    /\ uploads = <<>>
    /\ forb_start = DEFAULT_FORB_START
    /\ forb_end = CARES_EFFECTIVE
    /\ fp = NoRounding
    /\ items = <<>>
    /\ policy_note = ""
    /\ summary = ""

\* the caller puts one more (doc_name, doc_type, pages) on the list it will pass
InferAddDocument ==
    /\ pc = "infer"
    /\ Len(docs_text) < Min(MaxInferDocs, Len(InferNames))
    /\ \E ty \in {"MODIFICATION", "PAYMENT_HISTORY", "ESCROW", "BILLING", "OTHER"},
          ps \in InferPages(Len(docs_text) + 1) :
           docs_text' = Append(docs_text, [doc_name |-> InferNames[Len(docs_text) + 1],
                                           doc_type |-> ty, pages |-> ps])
    /\ UNCHANGED <<pc, items, policy_note, summary>>
    /\ InputsUnchanged

InferBaselineCall ==
    /\ pc = "infer"
    /\ ret' = infer_baseline_from_non_mod_docs(docs_text)
    /\ pc' = "baseline_inferred"
    /\ UNCHANGED <<uploads, forb_start, forb_end, fp, docs_text, items, policy_note, summary, args>>

InferModCall ==
    /\ pc = "infer"
    /\ ret' = infer_mod_terms_from_mod_docs(docs_text)
    /\ pc' = "mod_inferred"
    /\ UNCHANGED <<uploads, forb_start, forb_end, fp, docs_text, items, policy_note, summary, args>>

SpecInfer == InitInfer /\ [][InferAddDocument \/ InferBaselineCall \/ InferModCall]_vars

\* what Term Inference reads from the i-th document
Yield(i) == extract_terms_from_pages(docs_text[i].pages)

DocIndex(name) == CHOOSE i \in DOMAIN docs_text : docs_text[i].doc_name = name

CategoryRank(ty) == CASE ty = "BILLING" -> 1 [] ty = "PAYMENT_HISTORY" -> 2
                      [] ty = "ESCROW" -> 3 [] ty = "OTHER" -> 4 [] OTHER -> 5

\* document i is visited before document j by the baseline inference
VisitedBefore(i, j) ==
    \/ CategoryRank(docs_text[i].doc_type) < CategoryRank(docs_text[j].doc_type)
    \/ CategoryRank(docs_text[i].doc_type) = CategoryRank(docs_text[j].doc_type) /\ i < j

NonModDocs == {i \in DOMAIN docs_text : docs_text[i].doc_type # "MODIFICATION"}
ModDocs == {i \in DOMAIN docs_text : docs_text[i].doc_type = "MODIFICATION"}

Completes(i) ==
    \A k \in {"rate", "pi", "total"} : \E j \in ModDocs : j <= i /\ Yield(j)[k] # None
ModContributors == {i \in ModDocs : \A j \in ModDocs : j < i => ~Completes(j)}

\* the documents named by an evidence list, in the order of their first entry
NamedIn(ev) == {ev[e].doc_name : e \in DOMAIN ev}
InUploadOrder(ev) ==
    \A e \in DOMAIN ev : \A f \in DOMAIN ev :
        e < f => DocIndex(ev[e].doc_name) <= DocIndex(ev[f].doc_name)

---------------------------------------------------------------------------
(* extract_pages_text_with_ocr, one turn of its loop per step *)

MaxOcrPages == 3       \* pages of the PDF
MaxOcrCap == 2         \* largest ocr_page_cap

T_SHORT == <<Word("page")>>                 \* extracted text of fewer than 20 characters
T_OCR == <<Word("forbearance"), Word("approved")>>    \* text the OCR service returns

\* page.extract_text() of a page: nothing, fewer than 20 characters, or a readable page
ExtractedTexts == {<<>>, T_SHORT, T_MOD}
LowText(t) == t \in {<<>>, T_SHORT}         \* len(t) < 20

InitOcr ==
    \E texts \in PageSeqs(ExtractedTexts, 0, MaxOcrPages), use \in BOOLEAN, key \in BOOLEAN,
       cap \in 0..MaxOcrCap :
        /\ pc = "extract"
        /\ args = [reader_pages |-> texts, use_ocr |-> use, api_key |-> key, ocr_page_cap |-> cap]
        /\ ret = [pages_text |-> <<>>, ocr_used |-> 0, renders |-> 0, posts |-> 0]
        /\ uploads = <<>>
        /\ forb_start = DEFAULT_FORB_START
        /\ forb_end = CARES_EFFECTIVE
        /\ fp = NoRounding
        /\ docs_text = <<>>
        /\ items = <<>>
        /\ policy_note = ""
        /\ summary = ""

OcrUnchanged ==
    UNCHANGED <<uploads, forb_start, forb_end, fp, docs_text, items, policy_note, summary, args>>

NextPageText == args.reader_pages[Len(ret.pages_text) + 1]

\* use_ocr and len(t) < 20 and api_key and ocr_used < ocr_page_cap
OcrWanted ==
    /\ args.use_ocr /\ LowText(NextPageText) /\ args.api_key
    /\ ret.ocr_used < args.ocr_page_cap

\* a page that is not sent to OCR
PagePlain ==
    /\ pc = "extract" /\ Len(ret.pages_text) < Len(args.reader_pages)
    /\ ~OcrWanted
    /\ ret' = [ret EXCEPT !.pages_text = Append(@, NextPageText)]
    /\ UNCHANGED pc /\ OcrUnchanged

\* render_pdf_page_to_png raises: except Exception: pass
PageRenderFails ==
    /\ pc = "extract" /\ Len(ret.pages_text) < Len(args.reader_pages)
    /\ OcrWanted
    /\ ret' = [ret EXCEPT !.pages_text = Append(@, NextPageText), !.renders = @ + 1]
    /\ UNCHANGED pc /\ OcrUnchanged

\* requests.post or raise_for_status raises: except Exception: pass
PageOcrFails ==
    /\ pc = "extract" /\ Len(ret.pages_text) < Len(args.reader_pages)
    /\ OcrWanted
    /\ ret' = [ret EXCEPT !.pages_text = Append(@, NextPageText), !.renders = @ + 1,
                          !.posts = @ + 1]
    /\ UNCHANGED pc /\ OcrUnchanged

\* the OCR call returns: its text replaces t unless it is empty; ocr_used += 1
PageOcrReturns ==
    /\ pc = "extract" /\ Len(ret.pages_text) < Len(args.reader_pages)
    /\ OcrWanted
    /\ \E ocr_text \in {<<>>, T_OCR} :
           ret' = [ret EXCEPT !.pages_text = Append(@, IF ocr_text # <<>> THEN ocr_text
                                                       ELSE NextPageText),
                              !.renders = @ + 1, !.posts = @ + 1, !.ocr_used = @ + 1]
    /\ UNCHANGED pc /\ OcrUnchanged

ExtractReturn ==
    /\ pc = "extract" /\ Len(ret.pages_text) = Len(args.reader_pages)
    /\ pc' = "extracted"
    /\ UNCHANGED ret /\ OcrUnchanged

SpecOcr == InitOcr /\ [][PagePlain \/ PageRenderFails \/ PageOcrFails \/ PageOcrReturns
                         \/ ExtractReturn]_vars

\* C17: the number of OCR attempts (page render plus OCR network call) made for one
\* document never exceeds ocr_page_cap, for every sequence of low-text pages and every
\* pattern of OCR successes and failures.
C17_OcrAttemptsWithinCap ==
    pc \in {"extract", "extracted"} =>
        ret.renders <= args.ocr_page_cap /\ ret.posts <= args.ocr_page_cap

====
